---- MODULE Spec2Model ----
(***************************************************************************)
(* A model of main.cpp: the OpenGL error-reporting utility, the checked-   *)
(* call macros, the shader loader/compiler and main (setup, render loop,   *)
(* cleanup).                                                               *)
(*                                                                         *)
(* A run of the program is a record: its position (pc, the source line of  *)
(* the next statement of main), how it ended, the driver's pending error   *)
(* flag, the GPU objects created and released, the functions called so     *)
(* far, and the events (library calls, lines written, exceptions thrown)   *)
(* of the statement executed last, in order.                               *)
(*                                                                         *)
(* Two runs, main and twin, execute in lockstep against the same           *)
(* environment (library results, files, compiler verdicts, window events). *)
(* In main the driver raises any GL error at any call; in twin it raises   *)
(* the same errors at the calls no macro wraps and none at the calls       *)
(* wrapped by CheckedGLCall or CheckedGLResult. Two runs that differ only  *)
(* in the errors the wrapped calls raise have the same twin.               *)
(***************************************************************************)
EXTENDS Integers, Sequences, FiniteSets, TLC

VARIABLES main, twin

vars == <<main, twin>>

---------------------------------------------------------------------------
(* Bounds of the model *)

\* longest driver info log considered, in characters
MaxLogLen == 2

\* a GLenum glGetError may return that the switch does not name
\* (GL_STACK_OVERFLOW)
UnmappedCode == 1283

---------------------------------------------------------------------------
(* GL error codes, <GL/glew.h> values of the names used in the switch *)

GL_NO_ERROR == 0
GL_INVALID_ENUM == 1280
GL_INVALID_VALUE == 1281
GL_INVALID_OPERATION == 1282
GL_OUT_OF_MEMORY == 1285
GL_INVALID_FRAMEBUFFER_OPERATION == 1286
GL_CONTEXT_LOST == 1287

\* the values glGetError can return
Codes ==
    { GL_NO_ERROR, GL_INVALID_ENUM, GL_INVALID_VALUE, GL_INVALID_OPERATION,
      GL_OUT_OF_MEMORY, GL_INVALID_FRAMEBUFFER_OPERATION, GL_CONTEXT_LOST,
      UnmappedCode }

\* __FILE__ at every expansion of the macros
File == "main.cpp"

\* the GPU objects main owns, named by the variable that holds the handle
Handles == {"VAO", "VBO", "EBO", "VertexShader", "FragmentShader", "ShaderProgram"}

Shaders == {"VertexShader", "FragmentShader"}

\* the driver entry points that create an object
CreateFns == {"glGenVertexArrays", "glGenBuffers", "glCreateShader", "glCreateProgram"}

\* the driver entry points that release an object
DeleteFns == {"glDeleteProgram", "glDeleteShader", "glDeleteBuffers", "glDeleteVertexArrays"}

\* every graphics-driver function the program calls
GLFns ==
    CreateFns \cup DeleteFns \cup
    { "glGetError", "glGetString", "glBindVertexArray", "glBindBuffer",
      "glBufferData", "glShaderSource", "glCompileShader", "glGetShaderiv",
      "glGetShaderInfoLog", "glAttachShader", "glLinkProgram", "glUseProgram",
      "glGetAttribLocation", "glEnableVertexAttribArray",
      "glVertexAttribPointer", "glClear", "glDrawElements", "glViewport" }

---------------------------------------------------------------------------
(* Events of a statement *)

\* a library call: name the function, label the text of the call, uses the
\* handles passed to it, line the source line of the call, val the value it
\* returned, raised the GL error the driver generated while executing it
Call(name, label, uses, line, val, raised) ==
    [kind |-> "call", name |-> name, label |-> label, file |-> "",
     uses |-> uses, line |-> line, val |-> val, raised |-> raised]

\* a line written to std::cerr or std::cout
Line(stream, name, label, file, line) ==
    [kind |-> stream, name |-> name, label |-> label, file |-> file,
     uses |-> {}, line |-> line, val |-> 0, raised |-> GL_NO_ERROR]

\* a std::runtime_error thrown with message name \o label
Thrown(name, label, line) ==
    [kind |-> "throw", name |-> name, label |-> label, file |-> "",
     uses |-> {}, line |-> line, val |-> 0, raised |-> GL_NO_ERROR]

Emit(r, ev) ==
    [r EXCEPT !.events = Append(@, ev),
              !.called = IF ev.kind = "call" THEN @ \cup {ev.name} ELSE @]

\* a call into GLFW, GLEW or the C++ library: no effect on the GL error flag
LibCall(r, name, line, val) == Emit(r, Call(name, name, {}, line, val, GL_NO_ERROR))

\* a call of a driver function other than glGetError, during which the
\* driver generates error e (GL_NO_ERROR: none). The flag records an error
\* only while it is clear; a Gen/Create call creates the objects it names and
\* a Delete call releases them
GLCall(r, name, label, uses, line, val, e) ==
    LET r1 == Emit(r, Call(name, label, uses, line, val, e))
    IN  [r1 EXCEPT
           !.glError = IF @ = GL_NO_ERROR THEN e ELSE @,
           !.created = IF name \in CreateFns THEN @ \cup uses ELSE @,
           !.released = IF name \in DeleteFns
                        THEN [h \in Handles |-> IF h \in uses THEN @[h] + 1 ELSE @[h]]
                        ELSE @]

\* glGetError(): returns the flag and resets it to GL_NO_ERROR
glGetError(r, line) ==
    [Emit(r, Call("glGetError", "glGetError()", {}, line, r.glError, GL_NO_ERROR))
       EXCEPT !.glError = GL_NO_ERROR]

\* an exception leaves main uncaught: std::terminate, no statement after the
\* throw runs
Throw(r, name, label, line) ==
    [Emit(r, Thrown(name, label, line)) EXCEPT !.status = "aborted"]

\* return code from main
Return(r, code) == [r EXCEPT !.status = "returned", !.ret = code]

Goto(r, line) == [r EXCEPT !.pc = line]

---------------------------------------------------------------------------
(* Error-reporting utility and checked-call macros *)

\* ErrorString with the break after "OUT_OF_MEMORY" missing: the case falls
\* through to the next one
ErrorString_MissingBreak(Error) ==
    CASE Error = GL_INVALID_ENUM -> "INVALID_ENUM"
      [] Error = GL_INVALID_VALUE -> "INVALID_VALUE"
      [] Error = GL_INVALID_OPERATION -> "INVALID_OPERATION"
      [] Error = GL_OUT_OF_MEMORY -> "INVALID_FRAMEBUFFER_OPERATION"
      [] Error = GL_INVALID_FRAMEBUFFER_OPERATION -> "INVALID_FRAMEBUFFER_OPERATION"
      [] Error = GL_CONTEXT_LOST -> "CONTEXT_LOST"
      [] OTHER -> "UNKNOWN_ERROR"

ErrorString(Error) ==
    CASE Error = GL_INVALID_ENUM -> "INVALID_ENUM"
      [] Error = GL_INVALID_VALUE -> "INVALID_VALUE"
      [] Error = GL_INVALID_OPERATION -> "INVALID_OPERATION"
      [] Error = GL_OUT_OF_MEMORY -> "OUT_OF_MEMORY"
      [] Error = GL_INVALID_FRAMEBUFFER_OPERATION -> "INVALID_FRAMEBUFFER_OPERATION"
      [] Error = GL_CONTEXT_LOST -> "CONTEXT_LOST"
      [] OTHER -> "UNKNOWN_ERROR"

\* PrintOpenGLErrors made fatal: it throws after writing the line
PrintOpenGLErrors_Halting(r, Function, FileName, LineNo) ==
    LET Error == r.glError
        r1 == glGetError(r, 12)
    IN  IF Error # GL_NO_ERROR
        THEN Throw(Emit(r1, Line("cerr", ErrorString(Error), Function, FileName, LineNo)),
                   "OpenGL Error", Function, LineNo)
        ELSE r1

PrintOpenGLErrors(r, Function, FileName, LineNo) ==
    LET Error == r.glError
        r1 == glGetError(r, 12)
    IN  IF Error # GL_NO_ERROR
        THEN Emit(r1, Line("cerr", ErrorString(Error), Function, FileName, LineNo))
        ELSE r1

\* CheckedGLCall without the check before the call
CheckedGLCall_NoBefore(r, name, label, uses, line, e) ==
    PrintOpenGLErrors(GLCall(r, name, label, uses, line, 0, e), label, File, line)

\* CheckedGLCall(x) with _DEBUG defined; x is the driver call name(...) with
\* text label, raising e
CheckedGLCall(r, name, label, uses, line, e) ==
    LET r1 == PrintOpenGLErrors(r, ">>BEFORE<< " \o label, File, line)
        r2 == GLCall(r1, name, label, uses, line, 0, e)
    IN  PrintOpenGLErrors(r2, label, File, line)

\* CheckedGLResult(x) with _DEBUG defined: the comma expression evaluates
\* PrintOpenGLErrors, then x, and has the value of x
CheckedGLResult(r, name, label, uses, line, e) ==
    LET r1 == PrintOpenGLErrors(r, label, File, line)
    IN  GLCall(r1, name, label, uses, line, 1, e)

---------------------------------------------------------------------------
(* Inputs of a step *)

\* what the environment answers during one statement: ok, the result of the
\* library initialisation, window creation or file open of the statement;
\* success, GL_COMPILE_STATUS; logLen, GL_INFO_LOG_LENGTH after compiling;
\* resize and close, the window events delivered by glfwPollEvents
DefaultEnv ==
    [ok |-> TRUE, success |-> TRUE, logLen |-> 0, resize |-> FALSE, close |-> FALSE]

\* which driver call of the statement raises an error (at, counted over the
\* calls other than glGetError) and which error (e). The flag keeps the
\* first error only, so one raising call per statement covers every outcome
Raise(in, i) == IF in.at = i THEN in.e ELSE GL_NO_ERROR

---------------------------------------------------------------------------
(* Shader loader/compiler *)

PrintShaderInfoLog(r, Shader, in) ==
    LET InfoLogLength == r.infoLog[Shader]
        r1 == GLCall(r, "glGetShaderiv", "glGetShaderiv(Shader, GL_INFO_LOG_LENGTH, &InfoLogLength)",
                     {Shader}, 65, InfoLogLength, Raise(in, 6))
    IN  IF InfoLogLength > 0
        THEN Emit(GLCall(r1, "glGetShaderInfoLog",
                         "glGetShaderInfoLog(Shader, InfoLogLength, &CharsWritten, InfoLog)",
                         {Shader}, 70, InfoLogLength, Raise(in, 7)),
                  Line("cout", "Shader Info Log:", Shader, "", 71))
        ELSE r1

\* ok: the file at path can be opened for reading
LoadShaderFromFile(r, path, ok) ==
    LET r1 == LibCall(r, "std::ifstream", 79, IF ok THEN 1 ELSE 0)
    IN  IF ~ok
        THEN Throw(r1, "Failed to open shader file: ", path, 82)
        ELSE r1

\* the object glCreateShader(shaderType) makes, named by the variable of
\* main that receives it
ShaderOf(shaderType) ==
    IF shaderType = "GL_VERTEX_SHADER" THEN "VertexShader" ELSE "FragmentShader"

\* CompileShader creating the shader object before it reads the file
CompileShader_CreateFirst(r, path, shaderType, env, in) ==
    LET shader == ShaderOf(shaderType)
        r1 == GLCall(r, "glCreateShader", "glCreateShader(shaderType)", {shader}, 94, 1, Raise(in, 1))
        r0 == LoadShaderFromFile(r1, path, env.ok)
        r2 == GLCall(r0, "glShaderSource", "glShaderSource(shader, 1, &source, nullptr)",
                     {shader}, 95, 0, Raise(in, 2))
        r3 == [GLCall(r2, "glCompileShader", "glCompileShader(shader)", {shader}, 96, 0, Raise(in, 3))
                 EXCEPT !.infoLog[shader] = env.logLen]
        r4 == GLCall(r3, "glGetShaderiv", "glGetShaderiv(shader, GL_COMPILE_STATUS, &success)",
                     {shader}, 99, IF env.success THEN 1 ELSE 0, Raise(in, 4))
        r5 == GLCall(r4, "glGetShaderInfoLog", "glGetShaderInfoLog(shader, 512, nullptr, infoLog)",
                     {shader}, 103, 0, Raise(in, 5))
    IN  IF r0.status = "aborted" THEN r0
        ELSE IF ~env.success
        THEN Throw(PrintShaderInfoLog(r5, shader, in), "Shader compilation failed: ", shader, 105)
        ELSE r4

CompileShader(r, path, shaderType, env, in) ==
    LET r0 == LoadShaderFromFile(r, path, env.ok)
        shader == ShaderOf(shaderType)
        r1 == GLCall(r0, "glCreateShader", "glCreateShader(shaderType)", {shader}, 94, 1, Raise(in, 1))
        r2 == GLCall(r1, "glShaderSource", "glShaderSource(shader, 1, &source, nullptr)",
                     {shader}, 95, 0, Raise(in, 2))
        r3 == [GLCall(r2, "glCompileShader", "glCompileShader(shader)", {shader}, 96, 0, Raise(in, 3))
                 EXCEPT !.infoLog[shader] = env.logLen]
        r4 == GLCall(r3, "glGetShaderiv", "glGetShaderiv(shader, GL_COMPILE_STATUS, &success)",
                     {shader}, 99, IF env.success THEN 1 ELSE 0, Raise(in, 4))
        r5 == GLCall(r4, "glGetShaderInfoLog", "glGetShaderInfoLog(shader, 512, nullptr, infoLog)",
                     {shader}, 103, 0, Raise(in, 5))
    IN  IF r0.status = "aborted" THEN r0
        ELSE IF ~env.success
        THEN Throw(PrintShaderInfoLog(r5, shader, in), "Shader compilation failed: ", shader, 105)
        ELSE r4

\* glfwPollEvents() delivers a resize to the registered callback
framebuffer_size_callback(r, in) ==
    GLCall(r, "glViewport", "glViewport(0, 0, width, height)", {}, 113, 0, Raise(in, 1))

---------------------------------------------------------------------------
(* Statements of main. Each takes the run before the statement and gives    *)
(* the run after it.                                                        *)

main_glfwInit(r, env) ==
    LET r1 == LibCall(r, "glfwInit", 119, IF env.ok THEN 1 ELSE 0)
    IN  IF ~env.ok
        THEN Return(Emit(r1, Line("cerr", "Failed to initialize GLFW", "", "", 121)), -1)
        ELSE Goto(r1, 126)

main_glfwWindowHint(r) ==
    Goto(LibCall(LibCall(LibCall(LibCall(r, "glfwWindowHint", 126, 0),
                                 "glfwWindowHint", 127, 0),
                         "glfwWindowHint", 128, 0),
                 "glfwWindowHint", 129, 0), 132)

main_glfwCreateWindow(r, env) ==
    LET r1 == LibCall(r, "glfwCreateWindow", 132, IF env.ok THEN 1 ELSE 0)
        r2 == Emit(r1, Line("cerr", "Failed to create GLFW window", "", "", 135))
        r3 == LibCall(r2, "glfwGetError", 137, 0)
        r4 == Emit(r3, Line("cerr", "GLFW Error: ", "", "", 138))
        r5 == LibCall(r4, "glfwTerminate", 139, 0)
    IN  IF ~env.ok THEN Return(r5, -1) ELSE Goto(r1, 143)

main_glfwMakeContextCurrent(r) ==
    Goto(LibCall(LibCall(r, "glfwMakeContextCurrent", 143, 0),
                 "glfwSetFramebufferSizeCallback", 144, 0), 147)

\* the GLEW failure branch without its return
main_glewInit_NoReturn(r, env) ==
    LET r1 == LibCall(r, "glewInit", 148, IF env.ok THEN 0 ELSE 1)
        r2 == LibCall(r1, "glewGetErrorString", 151, 0)
        r3 == Emit(r2, Line("cerr", "GLEW Error: ", "", "", 151))
    IN  IF ~env.ok THEN Goto(r3, 157) ELSE Goto(r1, 157)

\* glewInit() returns GLEW_OK (0) or an error code
main_glewInit(r, env) ==
    LET r1 == LibCall(r, "glewInit", 148, IF env.ok THEN 0 ELSE 1)
        r2 == LibCall(r1, "glewGetErrorString", 151, 0)
        r3 == Emit(r2, Line("cerr", "GLEW Error: ", "", "", 151))
        r4 == LibCall(r3, "glfwTerminate", 152, 0)
    IN  IF ~env.ok THEN Return(r4, -1) ELSE Goto(r1, 157)

main_glGetString(r, in) ==
    LET r1 == GLCall(r, "glGetString", "glGetString(GL_VERSION)", {}, 157, 1, Raise(in, 1))
    IN  Goto(Emit(r1, Line("cout", "OpenGL Version: ", "", "", 157)), 172)

\* the CheckedGLCall statements of setup and of the loop body: the driver
\* function, the text of the call, the handles passed, the next statement
Stmt(name, label, uses, next) ==
    [name |-> name, label |-> label, uses |-> uses, next |-> next]

CheckedCallAt(l) ==
    CASE l = 172 -> Stmt("glGenVertexArrays", "glGenVertexArrays(1, &VAO)", {"VAO"}, 173)
      [] l = 173 -> Stmt("glBindVertexArray", "glBindVertexArray(VAO)", {"VAO"}, 177)
      [] l = 177 -> Stmt("glGenBuffers", "glGenBuffers(1, &VBO)", {"VBO"}, 178)
      [] l = 178 -> Stmt("glBindBuffer", "glBindBuffer(GL_ARRAY_BUFFER, VBO)", {"VBO"}, 179)
      [] l = 179 -> Stmt("glBufferData",
                         "glBufferData(GL_ARRAY_BUFFER, sizeof(Vertices), Vertices, GL_STATIC_DRAW)",
                         {}, 183)
      [] l = 183 -> Stmt("glGenBuffers", "glGenBuffers(1, &EBO)", {"EBO"}, 184)
      [] l = 184 -> Stmt("glBindBuffer", "glBindBuffer(GL_ELEMENT_ARRAY_BUFFER, EBO)", {"EBO"}, 185)
      [] l = 185 -> Stmt("glBufferData",
                         "glBufferData(GL_ELEMENT_ARRAY_BUFFER, sizeof(Elements), Elements, GL_STATIC_DRAW)",
                         {}, 188)
      [] l = 195 -> Stmt("glAttachShader", "glAttachShader(ShaderProgram, VertexShader)",
                         {"ShaderProgram", "VertexShader"}, 196)
      [] l = 196 -> Stmt("glAttachShader", "glAttachShader(ShaderProgram, FragmentShader)",
                         {"ShaderProgram", "FragmentShader"}, 197)
      [] l = 197 -> Stmt("glLinkProgram", "glLinkProgram(ShaderProgram)", {"ShaderProgram"}, 198)
      [] l = 198 -> Stmt("glUseProgram", "glUseProgram(ShaderProgram)", {"ShaderProgram"}, 201)
      [] l = 202 -> Stmt("glEnableVertexAttribArray", "glEnableVertexAttribArray(PositionAttribute)",
                         {}, 203)
      [] l = 203 -> Stmt("glVertexAttribPointer",
                         "glVertexAttribPointer(PositionAttribute, 2, GL_FLOAT, GL_FALSE, 0, 0)",
                         {}, 206)
      [] l = 209 -> Stmt("glClear", "glClear(GL_COLOR_BUFFER_BIT | GL_DEPTH_BUFFER_BIT)", {}, 212)
      [] l = 212 -> Stmt("glDrawElements", "glDrawElements(GL_TRIANGLES, 3, GL_UNSIGNED_INT, 0)",
                         {}, 215)

\* cleanup deleting the shaders before the program
CleanupAt_ShadersFirst(l) ==
    CASE l = 220 -> Stmt("glDeleteShader", "glDeleteShader(FragmentShader)", {"FragmentShader"}, 221)
      [] l = 221 -> Stmt("glDeleteShader", "glDeleteShader(VertexShader)", {"VertexShader"}, 222)
      [] l = 222 -> Stmt("glDeleteProgram", "glDeleteProgram(ShaderProgram)", {"ShaderProgram"}, 223)
      [] l = 223 -> Stmt("glDeleteBuffers", "glDeleteBuffers(1, &EBO)", {"EBO"}, 224)
      [] l = 224 -> Stmt("glDeleteBuffers", "glDeleteBuffers(1, &VBO)", {"VBO"}, 225)
      [] l = 225 -> Stmt("glDeleteVertexArrays", "glDeleteVertexArrays(1, &VAO)", {"VAO"}, 227)

\* the CheckedGLCall statements of cleanup
CleanupAt(l) ==
    CASE l = 220 -> Stmt("glDeleteProgram", "glDeleteProgram(ShaderProgram)", {"ShaderProgram"}, 221)
      [] l = 221 -> Stmt("glDeleteShader", "glDeleteShader(FragmentShader)", {"FragmentShader"}, 222)
      [] l = 222 -> Stmt("glDeleteShader", "glDeleteShader(VertexShader)", {"VertexShader"}, 223)
      [] l = 223 -> Stmt("glDeleteBuffers", "glDeleteBuffers(1, &EBO)", {"EBO"}, 224)
      [] l = 224 -> Stmt("glDeleteBuffers", "glDeleteBuffers(1, &VBO)", {"VBO"}, 225)
      [] l = 225 -> Stmt("glDeleteVertexArrays", "glDeleteVertexArrays(1, &VAO)", {"VAO"}, 227)

VAOLines == {172, 173}
VBOLines == {177, 178, 179}
EBOLines == {183, 184, 185}
LinkLines == {194, 195, 196, 197, 198}
AttributeLines == {201, 202, 203}
CleanupLines == {220, 221, 222, 223, 224, 225}
CheckedCallLines ==
    VAOLines \cup VBOLines \cup EBOLines \cup {195, 196, 197, 198, 202, 203, 209, 212}
CheckedResultLines == {194, 201}
WrappedLines == CheckedCallLines \cup CheckedResultLines \cup CleanupLines

main_CheckedGLCall(r, in) ==
    LET s == CheckedCallAt(r.pc)
    IN  Goto(CheckedGLCall(r, s.name, s.label, s.uses, r.pc, Raise(in, 1)), s.next)

main_Cleanup(r, in) ==
    LET s == CleanupAt(r.pc)
    IN  Goto(CheckedGLCall(r, s.name, s.label, s.uses, r.pc, Raise(in, 1)), s.next)

main_CompileVertexShader(r, env, in) ==
    Goto(CompileShader(r, "shaders/vertex.glsl", "GL_VERTEX_SHADER", env, in), 191)

main_CompileFragmentShader(r, env, in) ==
    Goto(CompileShader(r, "shaders/fragment.glsl", "GL_FRAGMENT_SHADER", env, in), 194)

main_glCreateProgram(r, in) ==
    Goto(CheckedGLResult(r, "glCreateProgram", "glCreateProgram()", {"ShaderProgram"}, 194,
                         Raise(in, 1)), 195)

main_glGetAttribLocation(r, in) ==
    Goto(CheckedGLResult(r, "glGetAttribLocation", "glGetAttribLocation(ShaderProgram, \"position\")",
                         {"ShaderProgram"}, 201, Raise(in, 1)), 202)

\* the loop condition without its negation
main_glfwWindowShouldClose_Inverted(r) ==
    LET r1 == LibCall(r, "glfwWindowShouldClose", 206, IF r.closeFlag THEN 1 ELSE 0)
    IN  IF r.closeFlag THEN Goto(r1, 209) ELSE Goto(r1, 220)

\* while (!glfwWindowShouldClose(window))
main_glfwWindowShouldClose(r) ==
    LET r1 == LibCall(r, "glfwWindowShouldClose", 206, IF r.closeFlag THEN 1 ELSE 0)
    IN  IF ~r.closeFlag THEN Goto(r1, 209) ELSE Goto(r1, 220)

main_glfwSwapBuffers(r) == Goto(LibCall(r, "glfwSwapBuffers", 215, 0), 216)

main_glfwPollEvents(r, env, in) ==
    LET r1 == LibCall(r, "glfwPollEvents", 216, 0)
        r2 == IF env.resize THEN framebuffer_size_callback(r1, in) ELSE r1
    IN  Goto([r2 EXCEPT !.closeFlag = @ \/ env.close], 206)

main_glfwTerminate(r) == Return(LibCall(r, "glfwTerminate", 227, 0), 0)

\* the statement at r.pc, executed
MainStep(r, env, in) ==
    LET s == [r EXCEPT !.events = <<>>, !.line = r.pc]
    IN  IF r.status # "running" THEN r
        ELSE CASE r.pc = 119 -> main_glfwInit(s, env)
               [] r.pc = 126 -> main_glfwWindowHint(s)
               [] r.pc = 132 -> main_glfwCreateWindow(s, env)
               [] r.pc = 143 -> main_glfwMakeContextCurrent(s)
               [] r.pc = 147 -> main_glewInit(s, env)
               [] r.pc = 157 -> main_glGetString(s, in)
               [] r.pc \in CheckedCallLines -> main_CheckedGLCall(s, in)
               [] r.pc = 188 -> main_CompileVertexShader(s, env, in)
               [] r.pc = 191 -> main_CompileFragmentShader(s, env, in)
               [] r.pc = 194 -> main_glCreateProgram(s, in)
               [] r.pc = 201 -> main_glGetAttribLocation(s, in)
               [] r.pc = 206 -> main_glfwWindowShouldClose(s)
               [] r.pc = 215 -> main_glfwSwapBuffers(s)
               [] r.pc = 216 -> main_glfwPollEvents(s, env, in)
               [] r.pc \in CleanupLines -> main_Cleanup(s, in)
               [] r.pc = 227 -> main_glfwTerminate(s)

---------------------------------------------------------------------------
(* The state machine *)

InitRun ==
    [pc |-> 119, status |-> "running", ret |-> 0, line |-> 0,
     glError |-> GL_NO_ERROR, events |-> <<>>,
     created |-> {}, released |-> [h \in Handles |-> 0], called |-> {},
     infoLog |-> [s \in Shaders |-> 0], closeFlag |-> FALSE]

Init == main = InitRun /\ twin = InitRun

NoError == [e |-> GL_NO_ERROR, at |-> 1]
NoRaise == {NoError}
OneCall == [e : Codes, at : {1}]
ShaderCalls == [e : Codes, at : 1..7]

\* main is about to execute one of the statements at lines
At(lines) == main.status = "running" /\ main.pc \in lines

\* one statement of main, executed by both runs against the same
\* environment answer; at a wrapped call the driver raises an error in
\* main only
Execute(env, in) ==
    /\ main' = MainStep(main, env, in)
    /\ twin' = MainStep(twin, env, IF main.pc \in WrappedLines THEN NoError ELSE in)

OkEnvs == {[DefaultEnv EXCEPT !.ok = ok] : ok \in BOOLEAN}

CompileEnvs ==
    {[DefaultEnv EXCEPT !.ok = ok, !.success = su, !.logLen = n] :
        ok \in BOOLEAN, su \in BOOLEAN, n \in 0..MaxLogLen}

EventEnvs ==
    {[DefaultEnv EXCEPT !.resize = rs, !.close = cl] : rs \in BOOLEAN, cl \in BOOLEAN}

InitializeGLFW ==
    /\ At({119})
    /\ \E env \in OkEnvs, in \in NoRaise : Execute(env, in)
ConfigureGLFW ==
    /\ At({126})
    /\ \E env \in {DefaultEnv}, in \in NoRaise : Execute(env, in)
CreateWindow ==
    /\ At({132})
    /\ \E env \in OkEnvs, in \in NoRaise : Execute(env, in)
MakeContextCurrent ==
    /\ At({143})
    /\ \E env \in {DefaultEnv}, in \in NoRaise : Execute(env, in)
InitializeGLEW ==
    /\ At({147})
    /\ \E env \in OkEnvs, in \in NoRaise : Execute(env, in)
PrintOpenGLVersion ==
    /\ At({157})
    /\ \E env \in {DefaultEnv}, in \in OneCall : Execute(env, in)
CreateAndBindVAO ==
    /\ At(VAOLines)
    /\ \E env \in {DefaultEnv}, in \in OneCall : Execute(env, in)
CreateAndPopulateVertexBuffer ==
    /\ At(VBOLines)
    /\ \E env \in {DefaultEnv}, in \in OneCall : Execute(env, in)
CreateAndPopulateElementBuffer ==
    /\ At(EBOLines)
    /\ \E env \in {DefaultEnv}, in \in OneCall : Execute(env, in)
CompileVertexShader ==
    /\ At({188})
    /\ \E env \in CompileEnvs, in \in ShaderCalls : Execute(env, in)
CompileFragmentShader ==
    /\ At({191})
    /\ \E env \in CompileEnvs, in \in ShaderCalls : Execute(env, in)
CreateAndLinkShaderProgram ==
    /\ At(LinkLines)
    /\ \E env \in {DefaultEnv}, in \in OneCall : Execute(env, in)
SetupVertexAttributes ==
    /\ At(AttributeLines)
    /\ \E env \in {DefaultEnv}, in \in OneCall : Execute(env, in)
MainLoopTest ==
    /\ At({206})
    /\ \E env \in {DefaultEnv}, in \in NoRaise : Execute(env, in)
ClearTheScreen ==
    /\ At({209})
    /\ \E env \in {DefaultEnv}, in \in OneCall : Execute(env, in)
DrawTheTriangle ==
    /\ At({212})
    /\ \E env \in {DefaultEnv}, in \in OneCall : Execute(env, in)
SwapBuffers ==
    /\ At({215})
    /\ \E env \in {DefaultEnv}, in \in NoRaise : Execute(env, in)
PollEvents ==
    /\ At({216})
    /\ \E env \in EventEnvs, in \in OneCall : Execute(env, in)
Cleanup ==
    /\ At(CleanupLines)
    /\ \E env \in {DefaultEnv}, in \in OneCall : Execute(env, in)
Terminate ==
    /\ At({227})
    /\ \E env \in {DefaultEnv}, in \in NoRaise : Execute(env, in)

Next ==
    \/ InitializeGLFW
    \/ ConfigureGLFW
    \/ CreateWindow
    \/ MakeContextCurrent
    \/ InitializeGLEW
    \/ PrintOpenGLVersion
    \/ CreateAndBindVAO
    \/ CreateAndPopulateVertexBuffer
    \/ CreateAndPopulateElementBuffer
    \/ CompileVertexShader
    \/ CompileFragmentShader
    \/ CreateAndLinkShaderProgram
    \/ SetupVertexAttributes
    \/ MainLoopTest
    \/ ClearTheScreen
    \/ DrawTheTriangle
    \/ SwapBuffers
    \/ PollEvents
    \/ Cleanup
    \/ Terminate

Spec == Init /\ [][Next]_vars

\* the statements from the loop test to the end of main
LoopAndCleanup ==
    \/ MainLoopTest
    \/ ClearTheScreen
    \/ DrawTheTriangle
    \/ SwapBuffers
    \/ PollEvents
    \/ Cleanup
    \/ Terminate

\* main is one sequential thread: once in the loop, while it has a statement
\* to execute it executes it (every library call returns)
FairSpec == Spec /\ WF_vars(LoopAndCleanup)

---------------------------------------------------------------------------
(* Reading the events of a statement *)

IsCall(ev, names) == ev.kind = "call" /\ ev.name \in names

\* positions in evs of the calls of the functions in names
CallsOf(evs, names) == {i \in 1..Len(evs) : IsCall(evs[i], names)}

\* positions of the driver calls other than glGetError
DriverCalls(evs) == CallsOf(evs, GLFns \ {"glGetError"})

\* positions of the lines PrintOpenGLErrors wrote with the given label
Reports(evs, label) ==
    {i \in 1..Len(evs) : evs[i].kind = "cerr" /\ evs[i].file = File /\ evs[i].label = label}

IsAnyCall(ev) == ev.kind = "call"

\* the calls of a run's last statement, in order, without what the driver
\* answered to glGetError and without the errors it raised
CallsMade(r) ==
    LET calls == SelectSeq(r.events, IsAnyCall)
    IN  [i \in 1..Len(calls) |->
            [name |-> calls[i].name, label |-> calls[i].label,
             uses |-> calls[i].uses, line |-> calls[i].line]]

\* a run without the diagnostic stream and the driver's error flag
Observable(r) ==
    [pc |-> r.pc, status |-> r.status, ret |-> r.ret, line |-> r.line,
     created |-> r.created, released |-> r.released, called |-> r.called,
     infoLog |-> r.infoLog, closeFlag |-> r.closeFlag, calls |-> CallsMade(r)]

---------------------------------------------------------------------------
(* C1 *)

\* C1: when main has ended, every GPU handle created during setup has been
\* released exactly once, also when LoadShaderFromFile or CompileShader
\* failed after earlier handles were created.
C1_CreatedHandlesReleasedOnce ==
    main.status # "running" => \A h \in main.created : main.released[h] = 1

---------------------------------------------------------------------------
(* C2 *)

\* C2: CheckedGLResult(x) executes x first and PrintOpenGLErrors labelled x
\* only after it, so a line labelled x is written exactly when x itself
\* raised an error.
C2_ResultCheckedAfterCall ==
    main.line \in CheckedResultLines =>
        \A i \in DriverCalls(main.events) :
            /\ \A j \in CallsOf(main.events, {"glGetError"}) : j > i
            /\ (Reports(main.events, main.events[i].label) # {})
                   <=> (main.events[i].raised # GL_NO_ERROR)

---------------------------------------------------------------------------
(* C3 *)

\* C3: every CheckedGLCall(x) does PrintOpenGLErrors ">>BEFORE<< x", then x,
\* then PrintOpenGLErrors "x"; an error pending on entry is reported under
\* the ">>BEFORE<<" label only and is cleared before x runs, and a line with
\* the plain label x is written if and only if x itself raised an error.
C3_CheckedCallAttribution ==
    main.line \in CheckedCallLines \cup CleanupLines =>
        LET ev == main.events
            gets == CallsOf(ev, {"glGetError"})
        IN  /\ Cardinality(DriverCalls(ev)) = 1
            /\ Cardinality(gets) = 2
            /\ \A i \in DriverCalls(ev) :
                 LET x == ev[i].label
                     before == Reports(ev, ">>BEFORE<< " \o x)
                     after == Reports(ev, x)
                     pending == ev[1].val
                 IN  /\ IsCall(ev[1], {"glGetError"})
                     /\ \E j \in gets : j < i
                     /\ \E j \in gets : j > i
                     /\ \A j \in before : j < i
                     /\ \A j \in after : j > i
                     /\ \A j \in 1..Len(ev) : ev[j].kind = "cerr" => j \in before \cup after
                     /\ (before # {}) <=> (pending # GL_NO_ERROR)
                     /\ \A j \in gets : j > i => ev[j].val = ev[i].raised
                     /\ (after # {}) <=> (ev[i].raised # GL_NO_ERROR)

\* a CheckedGLCall entered with an error pending whose call raised an error
\* too: both lines are written
C3_Witness ==
    /\ main.line \in CheckedCallLines
    /\ main.events[1].val # GL_NO_ERROR
    /\ \E i \in DriverCalls(main.events) :
          /\ main.events[i].raised # GL_NO_ERROR
          /\ Reports(main.events, main.events[i].label) # {}
          /\ Reports(main.events, ">>BEFORE<< " \o main.events[i].label) # {}

---------------------------------------------------------------------------
(* C4 *)

\* C4: GL errors are observational only. A run in which wrapped graphics
\* calls raise errors makes the same calls, passes through the same states
\* and ends with the same exit status as the run, otherwise the same, in
\* which no wrapped call raises one; only the diagnostic lines differ.
C4_ErrorsObservationalOnly == Observable(main) = Observable(twin)

\* main reaches the end of cleanup having just reported an error the twin
\* never saw
C4_Witness ==
    /\ main.pc = 227
    /\ \E i \in 1..Len(main.events) : main.events[i].kind = "cerr"
    /\ \A i \in 1..Len(twin.events) : twin.events[i].kind # "cerr"

---------------------------------------------------------------------------
(* C5 *)

\* C5: CompileShader given a readable path whose source compiles returns
\* the handle and, when the shader's info log is not empty, has printed the
\* info log through PrintShaderInfoLog.
C5_InfoLogPrintedOnSuccess ==
    \A l \in {188, 191} :
        LET shader == IF l = 188 THEN "VertexShader" ELSE "FragmentShader"
        IN  (main.line = l /\ main.status = "running" /\ main.infoLog[shader] > 0) =>
                /\ shader \in main.created
                /\ \E i \in 1..Len(main.events) :
                      /\ main.events[i].kind = "cout"
                      /\ main.events[i].name = "Shader Info Log:"
                      /\ main.events[i].label = shader

---------------------------------------------------------------------------
(* C6 *)

\* the std::ifstream of the last statement could not open the file
OpenFailed(r) ==
    \E i \in CallsOf(r.events, {"std::ifstream"}) : r.events[i].val = 0

\* C6: CompileShader given a path that cannot be opened fails with "Failed
\* to open shader file: <path>" and makes no driver call: no shader handle
\* is created and the driver state is as it was.
C6_OpenFailureMakesNoDriverCall ==
    [][ (main'.line \in {188, 191} /\ OpenFailed(main')) =>
            /\ main'.status = "aborted"
            /\ \E i \in 1..Len(main'.events) :
                  /\ main'.events[i].kind = "throw"
                  /\ main'.events[i].name = "Failed to open shader file: "
                  /\ main'.events[i].label =
                        (IF main'.line = 188 THEN "shaders/vertex.glsl"
                                             ELSE "shaders/fragment.glsl")
            /\ CallsOf(main'.events, GLFns) = {}
            /\ main'.called \cap GLFns = main.called \cap GLFns
            /\ main'.created = main.created
            /\ main'.released = main.released
            /\ main'.infoLog = main.infoLog
            /\ main'.glError = main.glError ]_vars

\* the fragment shader's file cannot be opened, after the vertex shader and
\* the buffers were created, with an error pending in the driver
C6_Witness ==
    /\ main.line = 191
    /\ OpenFailed(main)
    /\ main.status = "aborted"
    /\ "VertexShader" \in main.created
    /\ main.glError # GL_NO_ERROR

---------------------------------------------------------------------------
(* C7 *)

\* the last statement was an initialisation that failed
InitFailed(r) ==
    \E i \in 1..Len(r.events) :
        \/ IsCall(r.events[i], {"glfwInit", "glfwCreateWindow"}) /\ r.events[i].val = 0
        \/ IsCall(r.events[i], {"glewInit"}) /\ r.events[i].val # 0

\* C7: the exit status is -1 whenever glfwInit, glfwCreateWindow or glewInit
\* fails, and main then returns at once: no GPU handle is created, no shader
\* compiled, the render loop not entered. The exit status is 0 only after
\* the render loop, the cleanup sequence and glfwTerminate.
C7_ExitStatus ==
    /\ InitFailed(main) =>
          /\ main.status = "returned"
          /\ main.ret = -1
    /\ (main.status = "returned" /\ main.ret = -1) =>
          /\ InitFailed(main)
          /\ main.created = {}
          /\ main.called \cap GLFns = {}
          /\ "std::ifstream" \notin main.called
          /\ "glfwWindowShouldClose" \notin main.called
    /\ (main.status = "returned" /\ main.ret = 0) =>
          /\ "glfwWindowShouldClose" \in main.called
          /\ DeleteFns \subseteq main.called
          /\ \A h \in Handles : main.released[h] = 1
          /\ "glfwTerminate" \in main.called

\* glewInit failed after the window was created and main returned -1
C7_Witness ==
    /\ main.status = "returned"
    /\ main.ret = -1
    /\ "glewInit" \in main.called
    /\ InitFailed(main)

---------------------------------------------------------------------------
(* C8 *)

\* C8: for every value glGetError returns, PrintOpenGLErrors writes nothing
\* when it is GL_NO_ERROR and otherwise exactly one line, with the file, the
\* line and the label it was given and the name of the error: one of the six
\* names for the six codes, UNKNOWN_ERROR for any other code.
C8_ErrorNames ==
    LET ev == main.events
        name(code) ==
            CASE code = 1280 -> "INVALID_ENUM"
              [] code = 1281 -> "INVALID_VALUE"
              [] code = 1282 -> "INVALID_OPERATION"
              [] code = 1285 -> "OUT_OF_MEMORY"
              [] code = 1286 -> "INVALID_FRAMEBUFFER_OPERATION"
              [] code = 1287 -> "CONTEXT_LOST"
              [] OTHER -> "UNKNOWN_ERROR"
        written(i) == i <= Len(ev) /\ ev[i].kind = "cerr" /\ ev[i].file # ""
    IN  /\ \A i \in CallsOf(ev, {"glGetError"}) :
              IF ev[i].val = 0
              THEN ~written(i + 1)
              ELSE /\ written(i + 1)
                   /\ ~written(i + 2)
                   /\ ev[i + 1].name = name(ev[i].val)
                   /\ ev[i + 1].file = "main.cpp"
                   /\ ev[i + 1].line = main.line
                   /\ \E x \in DriverCalls(ev) :
                         ev[i + 1].label \in {ev[x].label, ">>BEFORE<< " \o ev[x].label}
        /\ \A i \in 1..Len(ev) :
              written(i) => i > 1 /\ IsCall(ev[i - 1], {"glGetError"})

\* glGetError returned a code the switch does not name and the line written
\* says UNKNOWN_ERROR
C8_Witness ==
    \E i \in CallsOf(main.events, {"glGetError"}) :
        /\ main.events[i].val \notin {0, 1280, 1281, 1282, 1285, 1286, 1287}
        /\ i < Len(main.events)
        /\ main.events[i + 1].name = "UNKNOWN_ERROR"

---------------------------------------------------------------------------
(* C9 *)

\* the one driver call of the last statement is the call with this text
Wraps(r, name, label) ==
    /\ Cardinality(DriverCalls(r.events)) = 1
    /\ \A i \in DriverCalls(r.events) :
          r.events[i].name = name /\ r.events[i].label = label

\* the render loop, step by step: the close flag is tested before each
\* iteration, an iteration is clear, draw, swap, poll in this order, and the
\* loop is left exactly when the flag is set
C9_LoopStep ==
    /\ main.pc = 206 =>
          /\ Len(main'.events) = 1
          /\ IsCall(main'.events[1], {"glfwWindowShouldClose"})
          /\ main'.events[1].val = (IF main.closeFlag THEN 1 ELSE 0)
          /\ main'.pc = (IF main.closeFlag THEN 220 ELSE 209)
          /\ main'.closeFlag = main.closeFlag
    /\ main'.pc \in {209, 220} => main.pc = 206
    /\ main.pc = 209 =>
          /\ Wraps(main', "glClear", "glClear(GL_COLOR_BUFFER_BIT | GL_DEPTH_BUFFER_BIT)")
          /\ main'.pc = 212
    /\ main.pc = 212 =>
          /\ Wraps(main', "glDrawElements", "glDrawElements(GL_TRIANGLES, 3, GL_UNSIGNED_INT, 0)")
          /\ main'.pc = 215
    /\ main.pc = 215 =>
          /\ Len(main'.events) = 1
          /\ IsCall(main'.events[1], {"glfwSwapBuffers"})
          /\ main'.pc = 216
    /\ main.pc = 216 =>
          /\ IsCall(main'.events[1], {"glfwPollEvents"})
          /\ CallsOf(main'.events, {"glClear", "glDrawElements", "glfwSwapBuffers"}) = {}
          /\ main'.pc = 206
    /\ main.pc \notin {209, 212} =>
          CallsOf(main'.events, {"glClear", "glDrawElements"}) = {}

\* C9: in the render loop every iteration performs exactly clear, one
\* indexed draw of 3 elements, buffer swap and event poll, in that order;
\* the close flag is tested before each iteration and the loop is left
\* exactly when it is set; once the flag is set the program reaches cleanup
\* and terminates, and no draw is issued after the flag was seen set.
C9_RenderLoop ==
    /\ [][main' # main => C9_LoopStep]_vars
    /\ (main.closeFlag ~> (main.status = "returned" /\ main.ret = 0))

\* the loop ran, the close flag was set and main has returned
C9_Witness ==
    /\ main.closeFlag
    /\ "glDrawElements" \in main.called
    /\ main.status = "returned"

---------------------------------------------------------------------------
(* C10 *)

\* the deletions so far respect the order program, shaders, buffers, array
C10_Order ==
    /\ \A s \in Shaders : main.released[s] > 0 => main.released["ShaderProgram"] > 0
    /\ \A b \in {"VBO", "EBO"} : main.released[b] > 0 =>
          \A s \in Shaders : main.released[s] > 0
    /\ main.released["VAO"] > 0 => \A b \in {"VBO", "EBO"} : main.released[b] > 0
    /\ ("glfwTerminate" \in main.called /\ "glfwWindowShouldClose" \in main.called) =>
          /\ \A h \in Handles : main.released[h] = 1
          /\ main.status = "returned"
          /\ main.ret = 0

\* no statement passes a handle deleted earlier to a graphics call, and no
\* graphics call follows glfwTerminate
C10_Step ==
    LET ev == main'.events
    IN  /\ \A i \in CallsOf(ev, GLFns) :
              /\ \A h \in ev[i].uses : main.released[h] = 0
              /\ "glfwTerminate" \notin main.called
              /\ \A j \in 1..(i - 1) :
                    /\ ~IsCall(ev[j], {"glfwTerminate"})
                    /\ IsCall(ev[j], DeleteFns) => ev[j].uses \cap ev[i].uses = {}
        /\ main.pc \in CleanupLines => main'.pc \in CleanupLines \cup {227}
        /\ main.pc = 227 => main'.status = "returned" /\ main'.ret = 0

\* C10: after the render loop cleanup deletes the program, then both
\* shaders, then both buffers, then the vertex array, and only then
\* terminates the windowing library and returns 0; no deleted handle is
\* passed to a graphics call afterwards and no graphics call follows the
\* termination of the windowing library.
C10_CleanupOrder ==
    /\ []C10_Order
    /\ [][main' # main => C10_Step]_vars

\* cleanup has run to the end and main returned 0
C10_Witness ==
    /\ main.status = "returned"
    /\ main.ret = 0
    /\ \A h \in Handles : main.released[h] = 1

====
